---- MODULE Spec2Model ----
(***************************************************************************)
(* Model of the event-driven backtesting engine of eetc-utils:             *)
(*   BrokerSim  (strategy/backtesting/broker_sim.py)  the ledger           *)
(*   Engine / BacktestEngine (strategy/engine.py, backtesting/engine.py)   *)
(*   EETCDataClient.get_price_data (clients/eetc_data.py)                  *)
(*   compute_perf_stats (strategy/backtesting/metrics.py)                  *)
(*   the status handling of the HTTP clients (clients/eetc_data.py,        *)
(*   clients/eetc_notifications.py)                                        *)
(*                                                                         *)
(* Money is a Python float in the source.  The model keeps it as an exact  *)
(* fixed-point number with Scale units per currency unit; slippage is in   *)
(* units of 1/Scale, so price * (1 +- slippage) is an exact integer.       *)
(* Bars carry the two columns the engine reads: date and close.            *)
(***************************************************************************)
EXTENDS Integers, Sequences, FiniteSets, TLC

\* ------------------------------------------------------------------ bounds
\* Lifetime cap on the bars marked by one engine (length of the ledger's
\* equity curve) and on the orders booked by one ledger (length of its trade log).
MaxBars == 2
MaxTrades == 2
\* Longest NAV series handed to compute_perf_stats directly.
MaxNav == 3

\* ------------------------------------------------------- program constants
Scale == 10000
DefaultSlippage == 5
DefaultCommissionPerShare == 0
DefaultInitialCash == 10000

\* ------------------------------------------------------------ input sets
Symbols == {"AAA", "BBB"}
Sides == {"BUY", "SELL", "hold"}
Qtys == {-5, 0, 10}
\* The (side, qty) pairs the strategies under the engine place.
StrategyOrders == {<<"BUY", 10>>}
\* date is the hub's "yyyy-mm-dd" string, kept as a day number: comparing
\* such strings is comparing the days.
Bars == {[date |-> 1, close |-> 100], [date |-> 2, close |-> 105]}
NoBar == [none |-> TRUE]
NoTimestamp == 0
\* NAV values of the series handed to compute_perf_stats directly, in
\* currency units: a ledger that may go short or buy beyond its cash can be
\* worth nothing or less than nothing at a mark.
NavValues == {-100, 0, 80, 100, 2000}
\* HTTP status codes of the responses the hub and the notification service
\* give.
Statuses == {200, 201, 204, 304, 400, 404, 500}
\* BrokerSim(slippage, commission_per_share, initial_cash): the defaults, a
\* frictionless ledger, and a small account paying one currency unit of
\* commission per share.
Configs ==
    { [slippage |-> DefaultSlippage, commission_per_share |-> DefaultCommissionPerShare,
       initial_cash |-> DefaultInitialCash],
      [slippage |-> 0, commission_per_share |-> 0, initial_cash |-> DefaultInitialCash],
      [slippage |-> DefaultSlippage, commission_per_share |-> 1, initial_cash |-> 500] }

VARIABLES broker, uuids, pc, symbol, response_data, price_df, idx, output, written, calls,
          last_call, error

vars == <<broker, uuids, pc, symbol, response_data, price_df, idx, output, written, calls,
          last_call, error>>

\* ---------------------------------------------------------------- helpers
Abs(x) == IF x < 0 THEN -x ELSE x

\* str.upper() on the side strings the strategies pass.
Upper(s) ==
    CASE s = "buy" -> "BUY"
      [] s = "sell" -> "SELL"
      [] s = "hold" -> "HOLD"
      [] OTHER -> s

RECURSIVE SumOver(_, _)
SumOver(S, f) ==
    IF S = {} THEN 0
    ELSE LET x == CHOOSE y \in S : TRUE
         IN  f[x] + SumOver(S \ {x}, [y \in S \ {x} |-> f[y]])

\* dict.get(key, default)
Get(d, k, default) == IF k \in DOMAIN d THEN d[k] ELSE default

\* d[k] = v on a dict
Put(d, k, v) == [x \in (DOMAIN d) \cup {k} |-> IF x = k THEN v ELSE d[x]]

EmptyDict == [x \in {} |-> 0]

SeqsUpTo(S, n) == UNION {[1..k -> S] : k \in 0..n}

\* The JSON bodies the data hub answers with: rows in any order, one row
\* per date.
Responses ==
    {r \in SeqsUpTo(Bars, Cardinality(Bars)) :
        \A i, j \in 1..Len(r) : i # j => r[i].date # r[j].date}

\* ------------------------------------------------- EETCDataClient (sort)
\* DataFrame.sort_values(by=["date"]): ascending, ties keep response order.
RECURSIVE InsertByDate(_, _)
InsertByDate(row, sorted) ==
    IF sorted = <<>> THEN <<row>>
    ELSE IF sorted[Len(sorted)].date <= row.date THEN Append(sorted, row)
    ELSE Append(InsertByDate(row, SubSeq(sorted, 1, Len(sorted) - 1)), sorted[Len(sorted)])

RECURSIVE SortValuesByDate(_)
SortValuesByDate(rows) ==
    IF rows = <<>> THEN <<>>
    ELSE InsertByDate(rows[Len(rows)], SortValuesByDate(SubSeq(rows, 1, Len(rows) - 1)))

\* Mutant of GetPriceData: the frame is returned in response order.
GetPriceData_Unsorted(rows) == rows

\* get_price_data(symbol, from_date, to_date) on a 200 response whose JSON
\* body is rows: an empty frame for an empty body, else the rows
\* sorted by date.
GetPriceData(rows) ==
    IF rows = <<>> THEN <<>> ELSE SortValuesByDate(rows)

\* ------------------------------------------------------ HTTP client calls
\* requests.Response.raise_for_status(): raises HTTPError for a 4xx or 5xx
\* status and returns for any other.
RaiseForStatus(status) == 400 <= status /\ status < 600

\* EETCDataClient._send_http_request on a response with this status and
\* JSON body: raise_for_status is called when the status is not 200, and
\* the response is returned if that did not raise.
SendHttpRequest(status, body) ==
    IF status # 200 /\ RaiseForStatus(status)
    THEN [raised |-> TRUE, error |-> "HTTPError"]
    ELSE [raised |-> FALSE, response |-> [status_code |-> status, json |-> body]]

\* Mutant of ClientGetPriceData: the frame is built and sorted without the
\* test for an empty body; sort_values(by=["date"]) on a frame without
\* columns raises KeyError.
ClientGetPriceData_NoEmptyGuard(status, body, as_json) ==
    LET r == SendHttpRequest(status, body)
    IN  IF r.raised THEN r
        ELSE IF as_json THEN [raised |-> FALSE, value |-> r.response.json]
        ELSE IF r.response.json = <<>> THEN [raised |-> TRUE, error |-> "KeyError"]
        ELSE [raised |-> FALSE, value |-> SortValuesByDate(r.response.json)]

\* EETCDataClient.get_price_data(symbol, ..., as_json) from the request on:
\* the JSON list itself with as_json, else the frame GetPriceData makes of
\* it.
ClientGetPriceData(status, body, as_json) ==
    LET r == SendHttpRequest(status, body)
    IN  IF r.raised THEN r
        ELSE LET rows == r.response.json
             IN  IF as_json THEN [raised |-> FALSE, value |-> rows]
                 ELSE [raised |-> FALSE, value |-> GetPriceData(rows)]

\* EETCDataClient.save_orders from the post on: raise_for_status when the
\* status is neither 200 nor 201; returns None.
SaveOrders(status) ==
    IF status \notin {200, 201} /\ RaiseForStatus(status)
    THEN [raised |-> TRUE, error |-> "HTTPError"]
    ELSE [raised |-> FALSE, value |-> <<>>]

\* EETCNotificationsClient.send_trade_update_to_telegram from the post on:
\* raise_for_status when the status is neither 200 nor 201; returns
\* response.json().
SendTradeUpdateToTelegram(status, body) ==
    IF status \notin {200, 201} /\ RaiseForStatus(status)
    THEN [raised |-> TRUE, error |-> "HTTPError"]
    ELSE [raised |-> FALSE, value |-> body]

\* ---------------------------------------------------------------- BrokerSim
\* BrokerSim.__init__
NewBrokerSim(slippage, commission_per_share, initial_cash) ==
    [ slippage |-> slippage,
      commission_per_share |-> commission_per_share,
      initial_cash |-> initial_cash,
      cash |-> initial_cash * Scale,
      positions |-> EmptyDict,
      trades |-> <<>>,
      equity_curve |-> <<>> ]

\* 1 if side.upper() == "BUY" else -1
Sign(side) == IF Upper(side) = "BUY" THEN 1 ELSE -1

\* Mutant of PlaceMarketOrder: slippage is added to the price for both
\* sides, so a SELL fills above the close.
PlaceMarketOrder_SlippageUp(b, sym, side, qty, bar, timestamp, uuid) ==
    LET sign == Sign(side)
        fill_price == bar.close * (Scale + b.slippage)
        commission == Abs(qty) * b.commission_per_share * Scale
        fill_value == fill_price * qty * sign * (-1)
        trade == [ trade_id |-> uuid + 1, order_id |-> uuid + 2, symbol |-> sym,
                   side |-> Upper(side), qty |-> Abs(qty), price |-> fill_price,
                   timestamp |-> timestamp, commission |-> commission,
                   fill_cost |-> fill_value ]
    IN  [ raised |-> FALSE,
          trade |-> trade,
          broker |-> [b EXCEPT
              !.cash = b.cash + fill_value - commission,
              !.positions = Put(b.positions, sym, Get(b.positions, sym, 0) + sign * qty),
              !.trades = Append(b.trades, trade)] ]

\* Mutant of PlaceMarketOrder: a BUY that costs more than the cash at hand
\* is refused.
PlaceMarketOrder_CashCheck(b, sym, side, qty, bar, timestamp, uuid) ==
    LET sign == Sign(side)
        fill_price == bar.close * (Scale + sign * b.slippage)
        commission == Abs(qty) * b.commission_per_share * Scale
        fill_value == fill_price * qty * sign * (-1)
        trade == [ trade_id |-> uuid + 1, order_id |-> uuid + 2, symbol |-> sym,
                   side |-> Upper(side), qty |-> Abs(qty), price |-> fill_price,
                   timestamp |-> timestamp, commission |-> commission,
                   fill_cost |-> fill_value ]
    IN  IF b.cash + fill_value - commission < 0 /\ sign = 1
        THEN [raised |-> TRUE, broker |-> b]
        ELSE [ raised |-> FALSE,
               trade |-> trade,
               broker |-> [b EXCEPT
                   !.cash = b.cash + fill_value - commission,
                   !.positions = Put(b.positions, sym, Get(b.positions, sym, 0) + sign * qty),
                   !.trades = Append(b.trades, trade)] ]

\* Mutant of PlaceMarketOrder: the fill value is taken from cash on both
\* sides, so a SELL pays for the shares it gives away.
PlaceMarketOrder_AlwaysDebit(b, sym, side, qty, bar, timestamp, uuid) ==
    LET sign == Sign(side)
        fill_price == bar.close * (Scale + sign * b.slippage)
        commission == Abs(qty) * b.commission_per_share * Scale
        fill_value == fill_price * qty * (-1)
        trade == [ trade_id |-> uuid + 1, order_id |-> uuid + 2, symbol |-> sym,
                   side |-> Upper(side), qty |-> Abs(qty), price |-> fill_price,
                   timestamp |-> timestamp, commission |-> commission,
                   fill_cost |-> fill_value ]
    IN  [ raised |-> FALSE,
          trade |-> trade,
          broker |-> [b EXCEPT
              !.cash = b.cash + fill_value - commission,
              !.positions = Put(b.positions, sym, Get(b.positions, sym, 0) + sign * qty),
              !.trades = Append(b.trades, trade)] ]

\* Mutant of PlaceMarketOrder: the newest Trade is put at the head of the
\* trade log.
PlaceMarketOrder_Prepend(b, sym, side, qty, bar, timestamp, uuid) ==
    IF bar = NoBar
    THEN [raised |-> TRUE, broker |-> b]
    ELSE LET sign == Sign(side)
             fill_price == bar.close * (Scale + sign * b.slippage)
             commission == Abs(qty) * b.commission_per_share * Scale
             fill_value == fill_price * qty * sign * (-1)
             trade == [ trade_id |-> uuid + 1, order_id |-> uuid + 2, symbol |-> sym,
                        side |-> Upper(side), qty |-> Abs(qty), price |-> fill_price,
                        timestamp |-> timestamp, commission |-> commission,
                        fill_cost |-> fill_value ]
         IN  [ raised |-> FALSE,
               trade |-> trade,
               broker |-> [b EXCEPT
                   !.cash = b.cash + fill_value - commission,
                   !.positions = Put(b.positions, sym, Get(b.positions, sym, 0) + sign * qty),
                   !.trades = <<trade>> \o b.trades] ]

\* Mutant of PlaceMarketOrder: the Trade records the fill value without
\* its sign.
PlaceMarketOrder_UnsignedFillCost(b, sym, side, qty, bar, timestamp, uuid) ==
    LET sign == Sign(side)
        fill_price == bar.close * (Scale + sign * b.slippage)
        commission == Abs(qty) * b.commission_per_share * Scale
        fill_value == fill_price * qty * sign * (-1)
        trade == [ trade_id |-> uuid + 1, order_id |-> uuid + 2, symbol |-> sym,
                   side |-> Upper(side), qty |-> Abs(qty), price |-> fill_price,
                   timestamp |-> timestamp, commission |-> commission,
                   fill_cost |-> Abs(fill_value) ]
    IN  [ raised |-> FALSE,
          trade |-> trade,
          broker |-> [b EXCEPT
              !.cash = b.cash + fill_value - commission,
              !.positions = Put(b.positions, sym, Get(b.positions, sym, 0) + sign * qty),
              !.trades = Append(b.trades, trade)] ]

\* Mutant of PlaceMarketOrder: an order without a bar is filled at a
\* reference price of zero.
PlaceMarketOrder_NoBarAtZero(b, sym, side, qty, bar, timestamp, uuid) ==
    LET ref_price == IF bar = NoBar THEN 0 ELSE bar.close
        sign == Sign(side)
        fill_price == ref_price * (Scale + sign * b.slippage)
        commission == Abs(qty) * b.commission_per_share * Scale
        fill_value == fill_price * qty * sign * (-1)
        trade == [ trade_id |-> uuid + 1, order_id |-> uuid + 2, symbol |-> sym,
                   side |-> Upper(side), qty |-> Abs(qty), price |-> fill_price,
                   timestamp |-> timestamp, commission |-> commission,
                   fill_cost |-> fill_value ]
    IN  [ raised |-> FALSE,
          trade |-> trade,
          broker |-> [b EXCEPT
              !.cash = b.cash + fill_value - commission,
              !.positions = Put(b.positions, sym, Get(b.positions, sym, 0) + sign * qty),
              !.trades = Append(b.trades, trade)] ]

\* BrokerSim.place_market_order on ledger b; uuid is the number of uuid4()
\* values drawn so far.  float(bar["close"]) raises TypeError when bar is
\* None, before anything is assigned.
PlaceMarketOrder(b, sym, side, qty, bar, timestamp, uuid) ==
    IF bar = NoBar
    THEN [raised |-> TRUE, broker |-> b]
    ELSE LET ref_price == bar.close
             sign == Sign(side)
             fill_price == ref_price * (Scale + sign * b.slippage)
             commission == Abs(qty) * b.commission_per_share * Scale
             fill_value == fill_price * qty * sign * (-1)
             trade == [ trade_id |-> uuid + 1,
                        order_id |-> uuid + 2,
                        symbol |-> sym,
                        side |-> Upper(side),
                        qty |-> Abs(qty),
                        price |-> fill_price,
                        timestamp |-> timestamp,
                        commission |-> commission,
                        fill_cost |-> fill_value ]
         IN  [ raised |-> FALSE,
               trade |-> trade,
               broker |-> [b EXCEPT
                   !.cash = b.cash + fill_value - commission,
                   !.positions = Put(b.positions, sym, Get(b.positions, sym, 0) + sign * qty),
                   !.trades = Append(b.trades, trade)] ]

\* Mutant of MarkToMarket: positions are valued without the ledger's cash
\* having been settled (NAV starts from the initial cash).
MarkToMarket_InitialCash(b, bar, timestamp) ==
    LET nav == b.initial_cash * Scale
               + SumOver(DOMAIN b.positions,
                         [s \in DOMAIN b.positions |-> b.positions[s] * bar.close * Scale])
    IN  [ nav |-> nav,
          broker |-> [b EXCEPT !.equity_curve =
              Append(b.equity_curve,
                     [ timestamp |-> timestamp, cash |-> b.cash, nav |-> nav,
                       positions |-> b.positions ])] ]

\* Mutant of MarkToMarket: the point holds self.positions itself instead
\* of a copy, so every point of the curve shows the one shared dict as it
\* is now.
MarkToMarket_SharedPositions(b, bar, timestamp) ==
    LET nav == b.cash
               + SumOver(DOMAIN b.positions,
                         [s \in DOMAIN b.positions |-> b.positions[s] * bar.close * Scale])
        shared == [i \in 1..Len(b.equity_curve) |->
                      [b.equity_curve[i] EXCEPT !.positions = b.positions]]
    IN  [ nav |-> nav,
          broker |-> [b EXCEPT !.equity_curve =
              Append(shared,
                     [ timestamp |-> timestamp, cash |-> b.cash, nav |-> nav,
                       positions |-> b.positions ])] ]

\* Mutant of MarkToMarket: the mark settles the book, turning the positions
\* into cash at the bar's close.
MarkToMarket_Liquidate(b, bar, timestamp) ==
    LET nav == b.cash
               + SumOver(DOMAIN b.positions,
                         [s \in DOMAIN b.positions |-> b.positions[s] * bar.close * Scale])
    IN  [ nav |-> nav,
          broker |-> [b EXCEPT
              !.cash = nav,
              !.positions = EmptyDict,
              !.equity_curve =
                  Append(b.equity_curve,
                         [ timestamp |-> timestamp, cash |-> b.cash, nav |-> nav,
                           positions |-> b.positions ])] ]

\* BrokerSim.mark_to_market on ledger b
MarkToMarket(b, bar, timestamp) ==
    LET nav == b.cash
               + SumOver(DOMAIN b.positions,
                         [s \in DOMAIN b.positions |-> b.positions[s] * bar.close * Scale])
    IN  [ nav |-> nav,
          broker |-> [b EXCEPT !.equity_curve =
              Append(b.equity_curve,
                     [ timestamp |-> timestamp,
                       cash |-> b.cash,
                       nav |-> nav,
                       positions |-> b.positions ])] ]

\* ------------------------------------------------------------------ metrics
\* DataFrame.sort_values("timestamp"): ascending, ties keep the log's order.
RECURSIVE InsertByTimestamp(_, _)
InsertByTimestamp(row, sorted) ==
    IF sorted = <<>> THEN <<row>>
    ELSE IF sorted[Len(sorted)].timestamp <= row.timestamp THEN Append(sorted, row)
    ELSE Append(InsertByTimestamp(row, SubSeq(sorted, 1, Len(sorted) - 1)),
                sorted[Len(sorted)])

RECURSIVE SortValuesByTimestamp(_)
SortValuesByTimestamp(rows) ==
    IF rows = <<>> THEN <<>>
    ELSE InsertByTimestamp(rows[Len(rows)],
                           SortValuesByTimestamp(SubSeq(rows, 1, Len(rows) - 1)))

\* The rows of the frame trades_to_pnl_series builds from the sorted
\* trades df: signed_qty, cash_delta, and their running sums.
PnlRows(df) ==
    LET signed_qty == [i \in 1..Len(df) |->
                          IF df[i].side = "BUY" THEN df[i].qty ELSE 0 - df[i].qty]
        cash_delta == [i \in 1..Len(df) |->
                          0 - df[i].price * signed_qty[i] - df[i].commission]
        position == [i \in 1..Len(df) |->
                        SumOver(1..i, [j \in 1..i |-> signed_qty[j]])]
        cash == [i \in 1..Len(df) |->
                    SumOver(1..i, [j \in 1..i |-> cash_delta[j]])]
    IN  [i \in 1..Len(df) |->
            [ timestamp |-> df[i].timestamp,
              position |-> position[i],
              cash |-> cash[i],
              nav |-> cash[i] + position[i] * df[i].price ]]

\* Mutant of TradesToPnlSeries: the trades are taken in the order of the
\* log, without the sort.
TradesToPnlSeries_Unsorted(trades) ==
    IF trades = <<>> THEN <<>> ELSE PnlRows(trades)

\* trades_to_pnl_series(trades): an empty frame for no trades, else the
\* position, cash and nav columns indexed by timestamp.
TradesToPnlSeries(trades) ==
    IF trades = <<>> THEN <<>>
    ELSE PnlRows(SortValuesByTimestamp(trades))

PerfKeys == {"annual_return", "annual_vol", "sharpe", "max_drawdown"}
\* pd.DataFrame(): what output["equity"] and output["perf"] start as
EmptyFrame == [frame |-> TRUE, keys |-> {}]
\* The nav_series argument: None, or a pandas Series of NAV values.
NoSeries == [none |-> TRUE, values |-> <<>>]
Series(values) == [none |-> FALSE, values |-> values]

\* float64 values of the statistics.  A finite value is the exact fraction
\* n/d in lowest terms with d > 0; inf is n = +1 or -1 with d = 0; nan is
\* n = 0, d = 0.  Rounding is not modelled, and zero has no sign (a NAV of
\* 0 is +0.0).
RECURSIVE GCD(_, _)
GCD(a, b) == IF b = 0 THEN a ELSE GCD(b, a % b)

NaN == [k |-> "nan", n |-> 0, d |-> 0]
Inf(s) == [k |-> "inf", n |-> s, d |-> 0]
Frac(n, d) ==
    LET g == GCD(Abs(n), Abs(d))
        s == IF d < 0 THEN -1 ELSE 1
    IN  [k |-> "fin", n |-> s * (n \div g), d |-> s * (d \div g)]
Zero == Frac(0, 1)

SignOf(x) == IF x.n > 0 THEN 1 ELSE IF x.n < 0 THEN -1 ELSE 0

\* x / y
ExtDiv(x, y) ==
    IF x.k = "nan" \/ y.k = "nan" THEN NaN
    ELSE IF y.k = "inf" THEN (IF x.k = "inf" THEN NaN ELSE Zero)
    ELSE IF x.k = "inf" THEN Inf(IF y.n < 0 THEN 0 - x.n ELSE x.n)
    ELSE IF y.n = 0 THEN (IF x.n = 0 THEN NaN ELSE Inf(SignOf(x)))
    ELSE LET g1 == GCD(Abs(x.n), Abs(y.n))
             g2 == GCD(x.d, y.d)
         IN  Frac((x.n \div g1) * (y.d \div g2), (x.d \div g2) * (y.n \div g1))

\* x * y
ExtMul(x, y) ==
    IF x.k = "nan" \/ y.k = "nan" THEN NaN
    ELSE IF x.k = "inf" \/ y.k = "inf"
    THEN (IF x.n = 0 \/ y.n = 0 THEN NaN ELSE Inf(SignOf(x) * SignOf(y)))
    ELSE LET g1 == GCD(Abs(x.n), y.d)
             g2 == GCD(Abs(y.n), x.d)
         IN  Frac((x.n \div g1) * (y.n \div g2), (x.d \div g2) * (y.d \div g1))

\* x + y on finite values
FracAdd(x, y) == Frac(x.n * y.d + y.n * x.d, x.d * y.d)

\* x - 1 and 1 + x
ExtSubOne(x) == IF x.k = "fin" THEN Frac(x.n - x.d, x.d) ELSE x
ExtAddOne(x) == IF x.k = "fin" THEN Frac(x.n + x.d, x.d) ELSE x

\* a/b < c/d for b, d > 0, by integer parts and then the remainders'
\* reciprocals, so that no product is formed.
RECURSIVE FracLess(_, _, _, _)
FracLess(a, b, c, d) ==
    LET qa == a \div b
        qc == c \div d
        ra == a % b
        rc == c % d
    IN  IF qa # qc THEN qa < qc
        ELSE IF rc = 0 THEN FALSE
        ELSE IF ra = 0 THEN TRUE
        ELSE FracLess(d, rc, b, ra)

\* x < y for values that are not nan
ExtLess(x, y) ==
    IF x.k = "inf" THEN x.n < 0 /\ y # x
    ELSE IF y.k = "inf" THEN y.n > 0
    ELSE FracLess(x.n, x.d, y.n, y.d)

NotNaN(S) == {x \in S : x.k # "nan"}
ExtMax(S) == CHOOSE x \in S : \A y \in S : ~ExtLess(x, y)
ExtMin(S) == CHOOSE x \in S : \A y \in S : ~ExtLess(y, x)

\* nav_series.pct_change().dropna(): NAV[t]/NAV[t-1] - 1 from the second
\* point on, the nan entries (0/0) dropped; x/0 is inf and stays.
Returns(nav_series) ==
    SelectSeq([t \in 1..(Len(nav_series) - 1) |->
                  ExtSubOne(ExtDiv(Frac(nav_series[t + 1], 1), Frac(nav_series[t], 1)))],
              LAMBDA r : r.k # "nan")

AllFinite(returns) == \A t \in 1..Len(returns) : returns[t].k = "fin"

RECURSIVE SumGrowth(_)
SumGrowth(returns) ==
    IF returns = <<>> THEN Zero
    ELSE FracAdd(SumGrowth(SubSeq(returns, 1, Len(returns) - 1)),
                 ExtAddOne(returns[Len(returns)]))

\* (1 + mean) ** 252 is beyond the largest float64 when |1 + mean| is above
\* 2 ** (1024 / 252) = 16.7189...; the sum is only formed when some
\* 1 + returns[t] is itself above 16.
Pow252Overflows(returns) ==
    /\ \E t \in 1..Len(returns) :
          LET q == ExtAddOne(returns[t]) IN Abs(q.n) > 16 * q.d
    /\ LET s == SumGrowth(returns)
       IN  Abs(s.n) * 10000 > 167189 * Len(returns) * s.d

\* ann_ret = (1 + returns.mean()) ** 252 - 1, as "nan", "inf" or "finite":
\* the mean of no returns, or of +inf and -inf, is nan; an even power of an
\* infinite or too large base is +inf.
AnnualReturn(returns) ==
    LET pos == \E t \in 1..Len(returns) : returns[t] = Inf(1)
        neg == \E t \in 1..Len(returns) : returns[t] = Inf(-1)
    IN  IF returns = <<>> \/ (pos /\ neg) THEN "nan"
        ELSE IF pos \/ neg THEN "inf"
        ELSE IF Pow252Overflows(returns) THEN "inf"
        ELSE "finite"

\* ann_vol = returns.std() * sqrt(252), as "nan", "zero" or "positive": the
\* sample deviation of fewer than two returns, or of returns with an
\* infinite one, is nan.
AnnualVol(returns) ==
    IF Len(returns) < 2 \/ ~AllFinite(returns) THEN "nan"
    ELSE IF \A t \in 1..Len(returns) : returns[t] = returns[1] THEN "zero"
    ELSE "positive"

\* sharpe = ann_ret / ann_vol if ann_vol > 0 else nan: a finite or infinite
\* ann_ret over a positive finite ann_vol is finite or infinite with it.
Sharpe(ann_ret, ann_vol) ==
    IF ann_vol = "positive" THEN ann_ret ELSE "nan"

\* cum = (1 + returns).cumprod()
RECURSIVE CumProd(_)
CumProd(returns) ==
    IF returns = <<>> THEN <<>>
    ELSE LET prev == CumProd(SubSeq(returns, 1, Len(returns) - 1))
             g == ExtAddOne(returns[Len(returns)])
         IN  Append(prev, IF prev = <<>> THEN g ELSE ExtMul(prev[Len(prev)], g))

\* peak = cum.cummax(): the largest value so far, nan where cum is nan
CumMax(cum) ==
    [t \in 1..Len(cum) |->
        IF cum[t].k = "nan" THEN NaN
        ELSE ExtMax(NotNaN({cum[s] : s \in 1..t}))]

\* (c - p) / p
DrawdownAt(c, p) ==
    IF c.k = "nan" \/ p.k = "nan" \/ p.k = "inf" THEN NaN
    ELSE IF c.k = "inf" \/ p.n = 0 THEN ExtDiv(c, p)
    ELSE ExtSubOne(ExtDiv(c, p))

\* max_dd = float(drawdown.min()) if not drawdown.empty else 0.0
MaxDrawdown(returns) ==
    LET cum == CumProd(returns)
        peak == CumMax(cum)
        drawdown == NotNaN({DrawdownAt(cum[t], peak[t]) : t \in 1..Len(cum)})
    IN  IF returns = <<>> THEN Zero
        ELSE IF drawdown = {} THEN NaN
        ELSE ExtMin(drawdown)

\* Mutant of ComputePerfStats: the guard on an empty or absent series is
\* left out for the empty series, which then gets the four statistics.
ComputePerfStats_NoEmptyGuard(nav_series) ==
    IF nav_series.none THEN [frame |-> FALSE, keys |-> {}]
    ELSE [ frame |-> FALSE, keys |-> PerfKeys,
           annual_return |-> "nan", annual_vol |-> "nan", sharpe |-> "nan",
           max_drawdown |-> Zero ]

\* compute_perf_stats(nav_series): {} for None or an empty series, else the
\* dict of the four statistics.
ComputePerfStats(nav_series) ==
    IF nav_series.none \/ nav_series.values = <<>> THEN [frame |-> FALSE, keys |-> {}]
    ELSE LET returns == Returns(nav_series.values)
             ann_ret == AnnualReturn(returns)
             ann_vol == AnnualVol(returns)
         IN  [ frame |-> FALSE,
               keys |-> PerfKeys,
               annual_return |-> ann_ret,
               annual_vol |-> ann_vol,
               sharpe |-> Sharpe(ann_ret, ann_vol),
               max_drawdown |-> MaxDrawdown(returns) ]

\* ------------------------------------------------------------------- Engine
Running == pc \in {"on_start", "on_data", "on_stop"}

Call(op, bar) == [op |-> op, bar |-> bar]

\* The engine's step from the return of one strategy callback to the call
\* of the next, for the bar at index i of price_df (i > Len: on_stop).
EnterBar(i) ==
    IF i <= Len(price_df)
    THEN /\ idx' = i
         /\ pc' = "on_data"
    ELSE /\ idx' = i
         /\ pc' = "on_stop"

NextCall(i) ==
    IF i <= Len(price_df) THEN Call("on_data", price_df[i]) ELSE Call("on_stop", NoBar)

\* Engine.__init__ / BacktestEngine.__init__: one BrokerSim per engine object
InitWith(b) ==
    /\ broker = b
    /\ uuids = 0
    /\ pc = "idle"
    /\ symbol = "AAA"
    /\ response_data = <<>>
    /\ price_df = <<>>
    /\ idx = 0
    /\ output = [trades |-> <<>>, equity |-> <<>>, perf |-> EmptyFrame]
    /\ written = [f \in {} |-> <<>>]
    /\ calls = <<>>
    /\ last_call = [op |-> "none"]
    /\ error = "none"

\* Engine() and BacktestEngine(): self.broker is BrokerSim() with its defaults.
Init == InitWith(NewBrokerSim(DefaultSlippage, DefaultCommissionPerShare, DefaultInitialCash))

\* BrokerSim(slippage, commission_per_share, initial_cash) as configured.
LedgerInit ==
    \E c \in Configs : InitWith(NewBrokerSim(c.slippage, c.commission_per_share, c.initial_cash))

\* Engine.run, lines 17-37: the output dict, the fetch, the context, and
\* the call of strategy.on_start.
RunFetch(sym, rows) ==
    /\ ~Running
    /\ Len(broker.equity_curve) + Len(rows) <= MaxBars
    /\ symbol' = sym
    /\ response_data' = rows
    /\ price_df' = GetPriceData(rows)
    /\ output' = [trades |-> <<>>, equity |-> <<>>, perf |-> EmptyFrame]
    /\ written' = [f \in {} |-> <<>>]
    /\ calls' = <<Call("on_start", NoBar)>>
    /\ idx' = 0
    /\ pc' = "on_start"
    /\ error' = "none"
    /\ last_call' = [op |-> "none"]
    /\ UNCHANGED <<broker, uuids>>

\* Mutant of RunFetchRaises: the error is caught around the fetch and the
\* output files are written before it is raised again.
RunFetchRaises_WritesFiles(sym) ==
    /\ ~Running
    /\ symbol' = sym
    /\ response_data' = <<>>
    /\ price_df' = <<>>
    /\ output' = [trades |-> <<>>, equity |-> <<>>, perf |-> EmptyFrame]
    /\ written' = [f \in {"trades", "equity"} |->
                     IF f = "trades" THEN <<>> ELSE broker.equity_curve]
    /\ calls' = <<Call("write_trades", NoBar), Call("write_equity", NoBar)>>
    /\ idx' = 0
    /\ pc' = "raised"
    /\ error' = "HTTPError"
    /\ last_call' = [op |-> "none"]
    /\ UNCHANGED <<broker, uuids>>

\* Engine.run when get_price_data raises (raise_for_status on the hub's
\* response): the error leaves run at line 24.
RunFetchRaises(sym) ==
    /\ ~Running
    /\ symbol' = sym
    /\ response_data' = <<>>
    /\ price_df' = <<>>
    /\ output' = [trades |-> <<>>, equity |-> <<>>, perf |-> EmptyFrame]
    /\ written' = [f \in {} |-> <<>>]
    /\ calls' = <<>>
    /\ idx' = 0
    /\ pc' = "raised"
    /\ error' = "HTTPError"
    /\ last_call' = [op |-> "none"]
    /\ UNCHANGED <<broker, uuids>>

\* strategy.on_start returns: the loop begins (lines 39-41), or with no
\* rows on_stop is called (line 44).
OnStartReturn ==
    /\ pc = "on_start"
    /\ EnterBar(1)
    /\ calls' = Append(calls, NextCall(1))
    /\ UNCHANGED <<broker, uuids, symbol, response_data, price_df, output, written, last_call, error>>

\* Mutant of OnDataReturn: the bars are marked in one batch after the
\* loop instead of one by one (here: the per-bar mark is left out).
OnDataReturn_NoMark ==
    /\ pc = "on_data"
    /\ calls' = Append(calls, NextCall(idx + 1))
    /\ EnterBar(idx + 1)
    /\ UNCHANGED <<broker, uuids, symbol, response_data, price_df, output, written,
                   last_call, error>>

\* strategy.on_data returns: mark_to_market on the same bar (line 42), then
\* on_data for the next row, or on_stop after the last (line 44).
OnDataReturn ==
    /\ pc = "on_data"
    /\ LET bar == price_df[idx]
           m == MarkToMarket(broker, bar, bar.date)
       IN  /\ broker' = m.broker
           /\ last_call' = [op |-> "mark_to_market", bar |-> bar, timestamp |-> bar.date,
                            pre |-> broker, nav |-> m.nav]
           /\ calls' = calls \o <<Call("mark_to_market", bar), NextCall(idx + 1)>>
    /\ EnterBar(idx + 1)
    /\ UNCHANGED <<uuids, symbol, response_data, price_df, output, written, error>>

\* Mutant of OnStopReturn: the ledger is marked once more on the last bar
\* after on_stop, so that orders placed in on_stop show in the curve.
OnStopReturn_FinalMark ==
    /\ pc = "on_stop"
    /\ LET closing == IF price_df = <<>> THEN broker
                      ELSE MarkToMarket(broker, price_df[Len(price_df)],
                                        price_df[Len(price_df)].date).broker
           equity_df == closing.equity_curve
           nav == [i \in 1..Len(equity_df) |-> equity_df[i].nav]
           perf == ComputePerfStats(Series(nav))
       IN  /\ broker' = closing
           /\ IF equity_df = <<>>
              THEN /\ written' = [f \in {"trades", "equity"} |->
                                    IF f = "trades" THEN output.trades ELSE equity_df]
                   /\ calls' = calls \o <<Call("write_trades", NoBar),
                                          Call("write_equity", NoBar)>>
                   /\ output' = [output EXCEPT !.equity = equity_df]
                   /\ pc' = "raised"
                   /\ error' = "KeyError"
              ELSE /\ written' = [f \in {"trades", "equity", "perf"} |->
                                    CASE f = "trades" -> output.trades
                                      [] f = "equity" -> equity_df
                                      [] OTHER -> <<perf>>]
                   /\ calls' = calls \o <<Call("write_trades", NoBar),
                                          Call("write_equity", NoBar),
                                          Call("write_perf", NoBar)>>
                   /\ output' = [output EXCEPT !.equity = equity_df, !.perf = perf]
                   /\ pc' = "returned"
                   /\ error' = "none"
    /\ UNCHANGED <<uuids, symbol, response_data, price_df, idx, last_call>>

\* strategy.on_stop returns: lines 46-68.  The trades file and the equity
\* csv are written; equity_df["nav"] raises KeyError on a frame without
\* columns (an empty equity curve); else the perf file is written and the
\* output returned.
OnStopReturn ==
    /\ pc = "on_stop"
    /\ LET equity_df == broker.equity_curve
           nav == [i \in 1..Len(equity_df) |-> equity_df[i].nav]
           perf == ComputePerfStats(Series(nav))
       IN  IF equity_df = <<>>
           THEN /\ written' = [f \in {"trades", "equity"} |->
                                 IF f = "trades" THEN output.trades ELSE equity_df]
                /\ calls' = calls \o <<Call("write_trades", NoBar), Call("write_equity", NoBar)>>
                /\ output' = [output EXCEPT !.equity = equity_df]
                /\ pc' = "raised"
                /\ error' = "KeyError"
           ELSE /\ written' = [f \in {"trades", "equity", "perf"} |->
                                 CASE f = "trades" -> output.trades
                                   [] f = "equity" -> equity_df
                                   [] OTHER -> <<perf>>]
                /\ calls' = calls \o <<Call("write_trades", NoBar), Call("write_equity", NoBar),
                                       Call("write_perf", NoBar)>>
                /\ output' = [output EXCEPT !.equity = equity_df, !.perf = perf]
                /\ pc' = "returned"
                /\ error' = "none"
    /\ UNCHANGED <<broker, uuids, symbol, response_data, price_df, idx, last_call>>

\* The bars a strategy callback can hand to place_order as data=: the
\* current bar inside on_data, the last bar inside on_stop, and none at all.
BarsInHand ==
    {NoBar} \cup
    (IF pc = "on_data" THEN {price_df[idx]}
     ELSE IF pc = "on_stop" /\ price_df # <<>> THEN {price_df[Len(price_df)]}
     ELSE {})

\* Mutant of PlaceOrder: the order is forwarded to the broker and the Trade
\* it returns is dropped instead of appended to output["trades"].
PlaceOrder_NoAppend(side, qty, data) ==
    /\ Running
    /\ data \in BarsInHand
    /\ data # NoBar => Len(broker.trades) < MaxTrades
    /\ LET ts == IF data = NoBar THEN NoTimestamp ELSE data.date
           r == PlaceMarketOrder(broker, symbol, side, qty, data, ts, uuids)
       IN  /\ broker' = r.broker
           /\ IF r.raised
              THEN /\ last_call' = [op |-> "place_market_order", symbol |-> symbol,
                                    side |-> side, qty |-> qty, bar |-> data,
                                    pre |-> broker, raised |-> TRUE]
                   /\ UNCHANGED <<output, uuids>>
              ELSE /\ last_call' = [op |-> "place_market_order", symbol |-> symbol,
                                    side |-> side, qty |-> qty, bar |-> data,
                                    pre |-> broker, raised |-> FALSE, trade |-> r.trade]
                   /\ UNCHANGED output
                   /\ uuids' = uuids + 2
    /\ UNCHANGED <<pc, symbol, response_data, price_df, idx, written, calls, error>>

\* context["place_order"](side, qty, data=bar, timestamp=bar date), lines
\* 30-34: forwards to the broker with the run's symbol and appends the
\* Trade to output["trades"]; when the broker raises nothing is appended.
PlaceOrder(side, qty, data) ==
    /\ Running
    /\ data \in BarsInHand
    /\ data # NoBar => Len(broker.trades) < MaxTrades
    /\ LET ts == IF data = NoBar THEN NoTimestamp ELSE data.date
           r == PlaceMarketOrder(broker, symbol, side, qty, data, ts, uuids)
       IN  /\ broker' = r.broker
           /\ IF r.raised
              THEN /\ last_call' = [op |-> "place_market_order", symbol |-> symbol,
                                    side |-> side, qty |-> qty, bar |-> data,
                                    pre |-> broker, raised |-> TRUE]
                   /\ UNCHANGED <<output, uuids>>
              ELSE /\ last_call' = [op |-> "place_market_order", symbol |-> symbol,
                                    side |-> side, qty |-> qty, bar |-> data,
                                    pre |-> broker, raised |-> FALSE, trade |-> r.trade]
                   /\ output' = [output EXCEPT !.trades = Append(@, r.trade)]
                   /\ uuids' = uuids + 2
    /\ UNCHANGED <<pc, symbol, response_data, price_df, idx, written, calls, error>>

\* Mutant of StrategyRaises: the results so far are saved in a finally
\* block before the error leaves run.
StrategyRaises_SavesResults ==
    /\ Running
    /\ pc' = "raised"
    /\ error' = "StrategyError"
    /\ written' = [f \in {"trades", "equity"} |->
                     IF f = "trades" THEN output.trades ELSE broker.equity_curve]
    /\ calls' = calls \o <<Call("write_trades", NoBar), Call("write_equity", NoBar)>>
    /\ UNCHANGED <<broker, uuids, symbol, response_data, price_df, idx, output, last_call>>

\* A strategy callback raises (its own error, or one of place_order that it
\* does not catch): the error leaves run.
StrategyRaises ==
    /\ Running
    /\ pc' = "raised"
    /\ error' = "StrategyError"
    /\ UNCHANGED <<broker, uuids, symbol, response_data, price_df, idx, output, written, calls, last_call>>

\* ------------------------------------------------ BrokerSim used directly
\* A client that drives one BrokerSim itself replays the bars in turn:
\* orders on the bar about to be marked, then mark_to_market on it.
BarInTurn == IF Len(broker.equity_curve) % 2 = 0
             THEN [date |-> 1, close |-> 100]
             ELSE [date |-> 2, close |-> 105]

\* broker.place_market_order(sym, side, qty, bar, timestamp)
LedgerOrder(sym, side, qty) ==
    /\ pc = "idle"
    /\ Len(broker.trades) < MaxTrades
    /\ LET bar == BarInTurn
           r == PlaceMarketOrder(broker, sym, side, qty, bar, bar.date, uuids)
       IN  /\ broker' = r.broker
           /\ IF r.raised
              THEN /\ last_call' = [op |-> "place_market_order", symbol |-> sym,
                                    side |-> side, qty |-> qty, bar |-> bar,
                                    pre |-> broker, raised |-> TRUE]
                   /\ UNCHANGED uuids
              ELSE /\ last_call' = [op |-> "place_market_order", symbol |-> sym,
                                    side |-> side, qty |-> qty, bar |-> bar,
                                    pre |-> broker, raised |-> FALSE, trade |-> r.trade]
                   /\ uuids' = uuids + 2
    /\ UNCHANGED <<pc, symbol, response_data, price_df, idx, output, written, calls, error>>

\* broker.mark_to_market(bar, timestamp)
LedgerMark ==
    /\ pc = "idle"
    /\ Len(broker.equity_curve) < MaxBars
    /\ LET bar == BarInTurn
           m == MarkToMarket(broker, bar, bar.date)
       IN  /\ broker' = m.broker
           /\ last_call' = [op |-> "mark_to_market", bar |-> bar, timestamp |-> bar.date,
                            pre |-> broker, nav |-> m.nav]
    /\ UNCHANGED <<uuids, pc, symbol, response_data, price_df, idx, output, written, calls, error>>

\* ------------------------------------------------------------ specifications
\* Engine runs, one after another on the same engine object.
Next ==
    \/ \E sym \in Symbols, rows \in Responses : RunFetch(sym, rows)
    \/ \E sym \in Symbols : RunFetchRaises(sym)
    \/ OnStartReturn
    \/ OnDataReturn
    \/ OnStopReturn
    \/ \E o \in StrategyOrders, data \in Bars \cup {NoBar} :
         PlaceOrder(o[1], o[2], data)
    \/ StrategyRaises

Spec == Init /\ [][Next]_vars

\* One BrokerSim driven directly through its two methods.
LedgerNext ==
    \/ \E sym \in Symbols, side \in Sides, qty \in Qtys : LedgerOrder(sym, side, qty)
    \/ LedgerMark

LedgerSpec == LedgerInit /\ [][LedgerNext]_vars

\* A BrokerSim driven directly with the orders of a well-behaved caller:
\* BUY or SELL, a quantity that is not negative.
ValidOrdersNext ==
    \/ \E sym \in Symbols, side \in {"BUY", "SELL"}, qty \in {q \in Qtys : q >= 0} :
          LedgerOrder(sym, side, qty)
    \/ LedgerMark

ValidOrdersSpec == LedgerInit /\ [][ValidOrdersNext]_vars

\* trades_to_pnl_series called on the trade log of a BrokerSim that is
\* driven directly with orders for one symbol (the function does not read
\* the symbol of a trade).
PnlSeries ==
    /\ pc = "idle"
    /\ last_call' = [op |-> "trades_to_pnl_series", trades |-> broker.trades,
                     result |-> TradesToPnlSeries(broker.trades)]
    /\ UNCHANGED <<broker, uuids, pc, symbol, response_data, price_df, idx, output, written,
                   calls, error>>

PnlNext ==
    \/ \E side \in Sides, qty \in Qtys : LedgerOrder("AAA", side, qty)
    \/ LedgerMark
    \/ PnlSeries

PnlSpec == LedgerInit /\ [][PnlNext]_vars

\* compute_perf_stats called directly on a NAV series.
ComputePerf(nav_series) ==
    /\ pc = "idle"
    /\ last_call' = [op |-> "compute_perf_stats", nav_series |-> nav_series,
                     result |-> ComputePerfStats(nav_series)]
    /\ UNCHANGED <<broker, uuids, pc, symbol, response_data, price_df, idx, output, written,
                   calls, error>>

MetricsNext ==
    \/ ComputePerf(NoSeries)
    \/ \E values \in SeqsUpTo(NavValues, MaxNav) : ComputePerf(Series(values))

MetricsSpec == Init /\ [][MetricsNext]_vars

\* The client methods called directly, each on a response with one of the
\* statuses and one of the JSON bodies.
ClientCall(op, status, body, as_json, r) ==
    /\ pc = "idle"
    /\ last_call' = [op |-> op, status |-> status, body |-> body, as_json |-> as_json,
                     raised |-> r.raised, result |-> r]
    /\ UNCHANGED <<broker, uuids, pc, symbol, response_data, price_df, idx, output, written,
                   calls, error>>

SendHttpRequestCall(status, body) ==
    ClientCall("_send_http_request", status, body, TRUE, SendHttpRequest(status, body))

GetPriceDataCall(status, body, as_json) ==
    ClientCall("get_price_data", status, body, as_json,
               ClientGetPriceData(status, body, as_json))

SaveOrdersCall(status) ==
    ClientCall("save_orders", status, <<>>, TRUE, SaveOrders(status))

SendTradeUpdateCall(status, body) ==
    ClientCall("send_trade_update_to_telegram", status, body, TRUE,
               SendTradeUpdateToTelegram(status, body))

ClientNext ==
    \/ \E status \in Statuses, body \in Responses : SendHttpRequestCall(status, body)
    \/ \E status \in Statuses, body \in Responses, as_json \in BOOLEAN :
          GetPriceDataCall(status, body, as_json)
    \/ \E status \in Statuses : SaveOrdersCall(status)
    \/ \E status \in Statuses : SendTradeUpdateCall(status, <<>>)

ClientSpec == Init /\ [][ClientNext]_vars

\* =================================================================== claims
\* The run in progress or last finished got past the fetch.
Fetched == calls # <<>>

\* The last run ended by itself: it returned, or raised outside the strategy
\* and outside the fetch.
EngineEnded == pc = "returned" \/ (pc = "raised" /\ error = "KeyError")

FreshLedger(b) ==
    /\ b.cash = b.initial_cash * Scale
    /\ b.positions = EmptyDict
    /\ b.trades = <<>>
    /\ b.equity_curve = <<>>

\* C1: every run starts from a fresh ledger (cash = initial cash, no
\* positions, empty trade log, empty equity curve), also the second and later
\* runs on one engine, so the equity curve a run returns has the rows of
\* that run only.
C1_FreshLedgerPerRun ==
    /\ pc = "on_start" => FreshLedger(broker)
    /\ pc = "returned" => Len(output.equity) = Len(price_df)

\* C2: a run over an empty bar sequence completes without raising, returns
\* empty trades, an empty equity curve and empty perf, and writes all three
\* files.
C2_EmptyRunCompletes ==
    (EngineEnded /\ price_df = <<>>) =>
        /\ pc = "returned"
        /\ output.trades = <<>>
        /\ output.equity = <<>>
        /\ output.perf.keys = {}
        /\ DOMAIN written = {"trades", "equity", "perf"}

\* The calls of a complete run over the frame df, in order.
RECURSIVE BarCalls(_)
BarCalls(df) ==
    IF df = <<>> THEN <<>>
    ELSE <<Call("on_data", df[1]), Call("mark_to_market", df[1])>> \o BarCalls(Tail(df))

ExpectedCalls(df) ==
    <<Call("on_start", NoBar)>> \o BarCalls(df)
    \o <<Call("on_stop", NoBar), Call("write_trades", NoBar), Call("write_equity", NoBar),
         Call("write_perf", NoBar)>>

IsPrefix(p, q) == Len(p) <= Len(q) /\ p = SubSeq(q, 1, Len(p))

\* C3: in run, on_start is called once before any on_data; each bar in
\* sequence order gets one on_data followed by mark_to_market on the same
\* bar before the next bar's on_data; on_stop is called once after the last
\* mark and before anything is persisted.  At every moment the calls made
\* so far are a prefix of that sequence (inside on_data for bar i exactly
\* through on_data(bar i), inside on_stop exactly through on_stop), and a
\* run that returns has made all of them.
C3_CallOrder ==
    /\ Fetched => IsPrefix(calls, ExpectedCalls(price_df))
    /\ pc = "on_start" => calls = <<Call("on_start", NoBar)>>
    /\ pc = "on_data" => calls = SubSeq(ExpectedCalls(price_df), 1, 2 * idx)
    /\ pc = "on_stop" => calls = SubSeq(ExpectedCalls(price_df), 1, 2 * Len(price_df) + 2)
    /\ pc = "returned" => calls = ExpectedCalls(price_df)
    /\ Len(SelectSeq(calls, LAMBDA c : c.op = "mark_to_market"))
         <= Len(broker.equity_curve)

C3_Witness ==
    /\ pc = "returned"
    /\ Len(price_df) = 2
    /\ calls = ExpectedCalls(price_df)

\* The bars handed to on_data so far, in call order.
OnDataBars ==
    LET cs == SelectSeq(calls, LAMBDA c : c.op = "on_data")
    IN  [i \in 1..Len(cs) |-> cs[i].bar]

\* C4: run replays the bars in ascending date order whatever order the
\* data hub's response lists them in: the bars handed to on_data are in
\* ascending date order, and once the loop is over they are the rows of the
\* response, each once.
C4_ReplayAscending ==
    /\ \A i, j \in 1..Len(OnDataBars) : i < j => OnDataBars[i].date <= OnDataBars[j].date
    /\ pc \in {"on_stop", "returned"} =>
         /\ Len(OnDataBars) = Len(response_data)
         /\ {OnDataBars[i] : i \in 1..Len(OnDataBars)}
              = {response_data[i] : i \in 1..Len(response_data)}

C4_Witness ==
    /\ pc = "returned"
    /\ Len(response_data) = 2
    /\ response_data[1].date > response_data[2].date
    /\ Len(OnDataBars) = 2

\* ------------------------------------------------------- ledger claims
\* The last ledger call was place_market_order / mark_to_market.
Ordered == last_call.op = "place_market_order"
Marked == last_call.op = "mark_to_market"

\* What the call left of the ledger it found.
LedgerUntouched ==
    /\ broker.cash = last_call.pre.cash
    /\ broker.positions = last_call.pre.positions
    /\ broker.trades = last_call.pre.trades

\* Change of the ordered symbol's position, and of cash, by the last order.
PositionDelta ==
    Get(broker.positions, last_call.symbol, 0) - Get(last_call.pre.positions, last_call.symbol, 0)

CashDelta == broker.cash - last_call.pre.cash

\* The fill terms of section 4.1 for an order of q shares on side s.
SpecFillPrice(s) ==
    IF s = "BUY" THEN last_call.bar.close * (Scale + last_call.pre.slippage)
    ELSE last_call.bar.close * (Scale - last_call.pre.slippage)

SpecCommission(q) == q * last_call.pre.commission_per_share * Scale

SpecCashDelta(s, q) ==
    IF s = "BUY" THEN 0 - SpecFillPrice(s) * q - SpecCommission(q)
    ELSE SpecFillPrice(s) * q - SpecCommission(q)

SpecPositionDelta(s, q) == IF s = "BUY" THEN q ELSE 0 - q

\* C5: an order whose side is neither BUY nor SELL is reported as an error
\* and changes neither cash, positions nor the trade log; it is never booked
\* as a BUY or as a SELL.  Stated for a positive quantity, which keeps the
\* zero and negative quantities of C6 and C7 out of the picture.
C5_InvalidSideRejected ==
    (Ordered /\ Upper(last_call.side) \notin {"BUY", "SELL"} /\ last_call.qty > 0) =>
        (last_call.raised /\ LedgerUntouched)

\* C6: an order of quantity zero leaves cash, the position map and the
\* trade log unchanged.
C6_ZeroQtyNoOp ==
    (Ordered /\ last_call.qty = 0) => LedgerUntouched

\* C7: an order with a negative quantity is either rejected (ledger
\* unchanged) or normalized (booked like the same side with the absolute
\* quantity), and the Trade recorded agrees with the position change booked.
C7_NegativeQtyRejectedOrNormalized ==
    (Ordered /\ last_call.qty < 0) =>
        \/ LedgerUntouched
        \/ /\ ~last_call.raised
           /\ CashDelta = SpecCashDelta(Upper(last_call.side), Abs(last_call.qty))
           /\ PositionDelta = SpecPositionDelta(Upper(last_call.side), Abs(last_call.qty))
           /\ PositionDelta = SpecPositionDelta(last_call.trade.side, last_call.trade.qty)

\* C8: a BUY or SELL of q >= 0 shares on a bar with close c fills at
\* c*(1+slippage) / c*(1-slippage), charges q*commission_per_share, moves
\* cash by -fill*q - commission / +fill*q - commission and the symbol's
\* position by +q / -q (from zero for an unseen symbol), and returns a Trade
\* with that side, quantity, fill price and commission, which is the last
\* entry of the trade log.
C8_FillArithmetic ==
    (Ordered /\ last_call.side \in {"BUY", "SELL"} /\ last_call.qty >= 0) =>
        /\ ~last_call.raised
        /\ CashDelta = SpecCashDelta(last_call.side, last_call.qty)
        /\ PositionDelta = SpecPositionDelta(last_call.side, last_call.qty)
        /\ last_call.trade.side = last_call.side
        /\ last_call.trade.qty = last_call.qty
        /\ last_call.trade.price = SpecFillPrice(last_call.side)
        /\ last_call.trade.commission = SpecCommission(last_call.qty)
        /\ last_call.trade.symbol = last_call.symbol
        /\ broker.trades = Append(last_call.pre.trades, last_call.trade)

C8_Witness ==
    /\ Ordered
    /\ last_call.side = "SELL"
    /\ last_call.qty = 10
    /\ last_call.pre.slippage > 0
    /\ last_call.pre.commission_per_share > 0
    /\ last_call.symbol \notin DOMAIN last_call.pre.positions
    /\ last_call.pre.trades # <<>>
    /\ broker.positions[last_call.symbol] = -10

\* C9: a BUY or SELL with q >= 0 is accepted whatever the cash and the
\* position: it is filled in full, also when it costs more than the cash
\* (cash goes negative) or sells more than is held (position goes negative).
C9_OrdersAlwaysAccepted ==
    (Ordered /\ last_call.side \in {"BUY", "SELL"} /\ last_call.qty >= 0) =>
        /\ ~last_call.raised
        /\ Len(broker.trades) = Len(last_call.pre.trades) + 1
        /\ Abs(PositionDelta) = last_call.qty

C9_Witness ==
    /\ Ordered
    /\ last_call.side = "BUY"
    /\ last_call.qty > 0
    /\ ~last_call.raised
    /\ last_call.pre.cash >= 0
    /\ broker.cash < 0
    /\ \E s \in DOMAIN broker.positions : broker.positions[s] < 0

\* C10: mark_to_market(bar) returns, and records in a new EquityPoint, NAV =
\* cash + sum over the symbols of position * bar close, together with that
\* cash.  Example: initial cash 10000, BUY 10 at close 100 without slippage
\* or commission gives cash 9000 and position 10; the mark at close 105
\* gives NAV 10050.
C10_NavAtMark ==
    /\ Marked =>
         LET nav == last_call.pre.cash
                    + Get(last_call.pre.positions, "AAA", 0) * last_call.bar.close * Scale
                    + Get(last_call.pre.positions, "BBB", 0) * last_call.bar.close * Scale
             point == broker.equity_curve[Len(broker.equity_curve)]
         IN  /\ last_call.nav = nav
             /\ Len(broker.equity_curve) = Len(last_call.pre.equity_curve) + 1
             /\ point.nav = nav
             /\ point.cash = last_call.pre.cash
             /\ point.cash = broker.cash
    /\ ( /\ Marked
         /\ last_call.bar.close = 105
         /\ broker.slippage = 0
         /\ broker.commission_per_share = 0
         /\ broker.initial_cash = 10000
         /\ Len(broker.trades) = 1
         /\ broker.trades[1].side = "BUY"
         /\ broker.trades[1].qty = 10
         /\ broker.trades[1].price = 100 * Scale
         /\ broker.positions = [s \in {broker.trades[1].symbol} |-> 10] )
       => (broker.cash = 9000 * Scale /\ last_call.nav = 10050 * Scale)

C10_Witness ==
    /\ Marked
    /\ last_call.bar.close = 105
    /\ broker.slippage = 0
    /\ broker.commission_per_share = 0
    /\ Len(broker.trades) = 1
    /\ broker.trades[1].side = "BUY"
    /\ broker.trades[1].price = 100 * Scale
    /\ broker.positions = [s \in {"AAA"} |-> 10]
    /\ broker.cash = 9000 * Scale
    /\ last_call.nav = 10050 * Scale

\* ------------------------------------------------- equity and trade logs
\* C11: after run has processed n bars, the equity curve it returns and
\* persists has exactly n EquityPoints, one per bar of that run in replay
\* order, with non-decreasing timestamps.
C11_EquityCurvePerRun ==
    pc = "returned" =>
        /\ Len(output.equity) = Len(price_df)
        /\ written.equity = output.equity
        /\ \A i \in 1..Len(output.equity) :
             i <= Len(price_df) => output.equity[i].timestamp = price_df[i].date
        /\ \A i, j \in 1..Len(output.equity) :
             i < j => output.equity[i].timestamp <= output.equity[j].timestamp

\* Signed quantity of a Trade of the log: +qty for a BUY, -qty for a SELL.
SignedQty(t) == IF t.side = "BUY" THEN t.qty ELSE 0 - t.qty

\* All trades of the log filled at the price p.
AllFilledAt(p) == \A i \in 1..Len(broker.trades) : broker.trades[i].price = p

NetPosition ==
    SumOver(DOMAIN broker.positions, [s \in DOMAIN broker.positions |-> broker.positions[s]])

\* C12: with zero slippage and zero commission, after any sequence of BUY
\* and SELL orders all filled at one price p on a fresh ledger, cash is
\* initial_cash minus the sum of signed_qty * p over the trade log, and a
\* mark at p while the net position is zero gives NAV = initial_cash.
C12_CashConservation ==
    \A bar \in Bars :
        (broker.slippage = 0 /\ broker.commission_per_share = 0
           /\ AllFilledAt(bar.close * Scale)) =>
            /\ broker.cash = broker.initial_cash * Scale
                 - SumOver(1..Len(broker.trades),
                           [i \in 1..Len(broker.trades) |->
                               SignedQty(broker.trades[i]) * bar.close * Scale])
            /\ (Marked /\ last_call.bar = bar /\ NetPosition = 0) =>
                 last_call.nav = broker.initial_cash * Scale

C12_Witness ==
    /\ broker.slippage = 0
    /\ broker.commission_per_share = 0
    /\ Len(broker.trades) = 2
    /\ broker.trades[1].side = "BUY"
    /\ broker.trades[2].side = "SELL"
    /\ broker.trades[1].qty = 10
    /\ broker.trades[2].qty = 10
    /\ AllFilledAt(100 * Scale)
    /\ Marked
    /\ last_call.bar.close = 100
    /\ NetPosition = 0
    /\ last_call.nav = broker.initial_cash * Scale

\* C13: each accepted place_market_order call appends exactly one Trade,
\* the one it returns, to the end of the trade log, and no other step of
\* the ledger or of run (a refused order, mark_to_market, the start and the
\* end of a run) removes, reorders or changes a Trade of the log.
C13_TradeLogAppendOnly ==
    [][ IF Ordered' /\ last_call' # last_call /\ ~last_call'.raised
        THEN broker'.trades = Append(broker.trades, last_call'.trade)
        ELSE broker'.trades = broker.trades ]_vars

C13_Witness ==
    /\ Ordered
    /\ ~last_call.raised
    /\ Len(last_call.pre.trades) = 1
    /\ Len(last_call.pre.equity_curve) >= 1
    /\ broker.trades = Append(last_call.pre.trades, last_call.trade)
    /\ broker.trades[1] # broker.trades[2]

\* ------------------------------------------------------------ fetch errors
\* C14: when the price-data fetch raises, run hands the error to its
\* caller: no strategy callback is called, the ledger is what it was before
\* the run, and no trades, equity or performance file is written.
C14_FetchErrorPropagates ==
    [][ error' = "HTTPError" =>
          /\ pc' = "raised"
          /\ calls' = <<>>
          /\ DOMAIN written' = {}
          /\ broker' = broker ]_vars

C14_Witness ==
    /\ pc = "raised"
    /\ error = "HTTPError"
    /\ calls = <<>>
    /\ DOMAIN written = {}
    /\ broker.trades # <<>>
    /\ broker.equity_curve # <<>>

\* ------------------------------------------------------ performance stats
PerfComputed == last_call.op = "compute_perf_stats"

\* C15: compute_perf_stats called with an empty or an absent (None) NAV
\* series returns the empty result: a dict without any statistic.
C15_EmptySeriesEmptyResult ==
    (PerfComputed /\ (last_call.nav_series.none \/ last_call.nav_series.values = <<>>)) =>
        /\ ~last_call.result.frame
        /\ last_call.result.keys = {}
        /\ DOMAIN last_call.result = {"frame", "keys"}

C15_Witness ==
    /\ PerfComputed
    /\ last_call.nav_series = Series(<<>>)
    /\ last_call.result.keys = {}

\* C17: for a NAV series that is not empty compute_perf_stats returns the
\* four statistics; sharpe is annual_return / annual_vol when annual_vol > 0
\* and nan otherwise (zero volatility, fewer than two NAV points);
\* max_drawdown is 0 when there are no returns; and none of the statistics
\* is infinite.
C17_PerfStatsDefined ==
    (PerfComputed /\ ~last_call.nav_series.none /\ last_call.nav_series.values # <<>>) =>
        LET r == last_call.result
            returns == Returns(last_call.nav_series.values)
        IN  /\ r.keys = PerfKeys
            /\ r.annual_vol = "positive" => r.sharpe = r.annual_return
            /\ r.annual_vol # "positive" => r.sharpe = "nan"
            /\ Len(last_call.nav_series.values) < 2 => r.sharpe = "nan"
            /\ returns = <<>> => r.max_drawdown = Zero
            /\ r.annual_return # "inf"
            /\ r.sharpe # "inf"
            /\ r.max_drawdown.k # "inf"

\* ------------------------------------------------------------ HTTP clients
ClientCalled ==
    last_call.op \in {"_send_http_request", "get_price_data", "save_orders",
                      "send_trade_update_to_telegram"}

\* The statuses a client call accepts: 200 for the data hub's GET requests,
\* 200 and 201 for the two POST calls.
Accepted(op) ==
    IF op \in {"_send_http_request", "get_price_data"} THEN {200} ELSE {200, 201}

\* C18: every client HTTP call raises HTTPError whenever the status of the
\* response is outside the call's accepted set, and returns normally only
\* for an accepted status.
C18_UnacceptedStatusRaises ==
    ClientCalled =>
        /\ last_call.raised <=> last_call.status \notin Accepted(last_call.op)
        /\ last_call.raised => last_call.result.error = "HTTPError"

\* C19: a price-data request answered with status 200 and an empty list
\* yields an empty sequence and no error, as a DataFrame and with as_json.
C19_EmptyPriceData ==
    (last_call.op = "get_price_data" /\ last_call.status = 200 /\ last_call.body = <<>>) =>
        /\ ~last_call.raised
        /\ last_call.result.value = <<>>

C19_Witness ==
    /\ last_call.op = "get_price_data"
    /\ last_call.status = 200
    /\ last_call.body = <<>>
    /\ ~last_call.as_json
    /\ ~last_call.raised
    /\ last_call.result.value = <<>>

\* C20: an EquityPoint, once appended, never changes: every step of the
\* ledger leaves the points already on the curve as they were (timestamp,
\* cash, NAV and positions), and the point a mark appends holds the
\* positions of that instant.
C20_EquityPointsImmutable ==
    [][ /\ IsPrefix(broker.equity_curve, broker'.equity_curve)
        /\ (Marked' /\ last_call' # last_call) =>
             /\ Len(broker'.equity_curve) = Len(broker.equity_curve) + 1
             /\ broker'.equity_curve[Len(broker'.equity_curve)].positions = broker.positions
      ]_vars

C20_Witness ==
    /\ Len(broker.equity_curve) = 2
    /\ broker.equity_curve[1].positions # broker.equity_curve[2].positions
    /\ broker.equity_curve[2].positions # broker.positions
    /\ broker.equity_curve[1].cash # broker.cash

\* ------------------------------------------------------- frames and records
\* C21: mark_to_market changes nothing but the equity curve (cash, the
\* position map and the trade log are what they were before the call), and
\* a step that changes cash or positions is a place_market_order.
C21_MarkChangesOnlyEquity ==
    [][ /\ (Marked' /\ last_call' # last_call) =>
             /\ broker'.cash = broker.cash
             /\ broker'.positions = broker.positions
             /\ broker'.trades = broker.trades
             /\ broker'.equity_curve # broker.equity_curve
        /\ (broker'.cash # broker.cash \/ broker'.positions # broker.positions) =>
             (Ordered' /\ last_call' # last_call)
      ]_vars

C21_Witness ==
    /\ Marked
    /\ last_call.pre.positions # EmptyDict
    /\ last_call.pre.cash # last_call.pre.initial_cash * Scale
    /\ last_call.nav # last_call.pre.cash
    /\ broker.cash = last_call.pre.cash
    /\ broker.positions = last_call.pre.positions

\* C22: orders placed by the strategy inside on_stop add, remove and change
\* no EquityPoint: from the call of on_stop on the ledger's equity curve
\* stays what the last bar's mark_to_market left, and that curve is the one
\* run returns and writes.
C22_OnStopOrdersLeaveEquity ==
    [][ pc = "on_stop" =>
          /\ broker'.equity_curve = broker.equity_curve
          /\ pc' = "returned" =>
               /\ output'.equity = broker.equity_curve
               /\ written'.equity = broker.equity_curve ]_vars

C22_Witness ==
    /\ pc = "returned"
    /\ Ordered
    /\ ~last_call.raised
    /\ Len(last_call.pre.equity_curve) = Len(price_df)
    /\ output.equity = last_call.pre.equity_curve
    /\ output.equity[Len(output.equity)].cash # broker.cash
    /\ output.equity[Len(output.equity)].positions # broker.positions

PnlComputed == last_call.op = "trades_to_pnl_series"

\* The orderings of 1..n: the ways to list n trades.
Orderings(n) == {f \in [1..n -> 1..n] : \A i, j \in 1..n : i # j => f[i] # f[j]}

TradeSignedQty(t) == IF t.side = "BUY" THEN t.qty ELSE 0 - t.qty

\* C23: trades_to_pnl_series lists the trades in timestamp order and gives
\* for each the running position (sum of the signed quantities so far, +qty
\* for a BUY and -qty for a SELL), the running cash (sum of -price *
\* signed_qty - commission so far) and NAV = running cash + running
\* position * that trade's price; no trades give an empty result.
C23_PnlSeries ==
    PnlComputed =>
        LET trades == last_call.trades
            rows == last_call.result
            n == Len(trades)
        IN  /\ trades = <<>> => rows = <<>>
            /\ Len(rows) = n
            /\ \E f \in Orderings(n) :
                 /\ \A i, j \in 1..n : i < j => trades[f[i]].timestamp <= trades[f[j]].timestamp
                 /\ \A i \in 1..n :
                      LET position == SumOver(1..i, [j \in 1..i |-> TradeSignedQty(trades[f[j]])])
                          cash == SumOver(1..i, [j \in 1..i |->
                                      0 - trades[f[j]].price * TradeSignedQty(trades[f[j]])
                                        - trades[f[j]].commission])
                      IN  /\ rows[i].timestamp = trades[f[i]].timestamp
                          /\ rows[i].position = position
                          /\ rows[i].cash = cash
                          /\ rows[i].nav = cash + position * trades[f[i]].price

C23_Witness ==
    /\ PnlComputed
    /\ Len(last_call.trades) = 2
    /\ last_call.trades[1].timestamp > last_call.trades[2].timestamp
    /\ last_call.trades[1].side = "BUY"
    /\ last_call.trades[2].side = "SELL"
    /\ last_call.trades[1].commission > 0
    /\ last_call.result[1].timestamp < last_call.result[2].timestamp
    /\ last_call.result[2].position = 0

\* C24: after any sequence of place_market_order and mark_to_market calls
\* on a new BrokerSim, cash is initial_cash plus the sum over the trade log
\* of fill_cost - commission.
C24_CashIsLogSum ==
    broker.cash = broker.initial_cash * Scale
                  + SumOver(1..Len(broker.trades),
                            [i \in 1..Len(broker.trades) |->
                                broker.trades[i].fill_cost - broker.trades[i].commission])

C24_Witness ==
    /\ Len(broker.trades) = 2
    /\ Len(broker.equity_curve) >= 1
    /\ broker.trades[1].fill_cost < 0
    /\ broker.trades[2].fill_cost > 0
    /\ broker.trades[1].commission > 0
    /\ broker.cash # broker.initial_cash * Scale

\* C25: the trade log is a faithful record of the ledger: after orders for
\* one symbol with non-decreasing timestamps on a new BrokerSim, the last
\* row trades_to_pnl_series makes of the log has the ledger's position in
\* that symbol and the ledger's cash less initial_cash.
C25_LogReconstructsLedger ==
    ( /\ PnlComputed
      /\ last_call.trades # <<>>
      /\ \A i, j \in 1..Len(last_call.trades) :
           /\ last_call.trades[i].symbol = last_call.trades[j].symbol
           /\ i < j => last_call.trades[i].timestamp <= last_call.trades[j].timestamp )
    => LET final == last_call.result[Len(last_call.result)]
       IN  /\ broker.trades = last_call.trades
           /\ final.position = Get(broker.positions, last_call.trades[1].symbol, 0)
           /\ final.cash = broker.cash - broker.initial_cash * Scale

\* C26: during run(symbol) every order placed through place_order is booked
\* to the run's symbol, and at every mark_to_market of the run the position
\* map holds no symbol other than the run's, whose bar close is the price
\* used for NAV.
C26_SingleSymbolRun ==
    /\ (Running /\ Ordered) => last_call.symbol = symbol
    /\ (Running /\ Marked) => DOMAIN last_call.pre.positions \subseteq {symbol}

\* s is the end of the sequence q.
IsSuffix(s, q) == Len(s) <= Len(q) /\ s = SubSeq(q, Len(q) - Len(s) + 1, Len(q))

\* C27: the trades list of a run holds exactly the Trades the ledger
\* recorded during that run, in the order they were placed: it starts
\* empty, grows by the Trade the ledger appends and by nothing else, is the
\* end of the ledger's trade log, is what run writes, and on an engine
\* whose log was empty when the run began it is the whole log.
C27_RunTradesAreLedgerTrades ==
    [][ /\ (~Running /\ Running') => output'.trades = <<>>
        /\ Running =>
             /\ IsPrefix(output.trades, output'.trades)
             /\ Len(output'.trades) - Len(output.trades)
                  = Len(broker'.trades) - Len(broker.trades)
        /\ (Running' \/ pc' = "returned") =>
             /\ IsSuffix(output'.trades, broker'.trades)
             /\ (output'.trades # <<>> /\ output'.trades[1] = broker'.trades[1]) =>
                  output'.trades = broker'.trades
        /\ pc' = "returned" => written'.trades = output'.trades
      ]_vars

C27_Witness ==
    /\ pc = "returned"
    /\ Len(output.trades) = 1
    /\ Len(broker.trades) = 2
    /\ output.trades[1] = broker.trades[2]
    /\ written.trades = output.trades

\* ------------------------------------------------------- callback errors
\* The calls of the run's log with this operation.
CallsOf(op) == SelectSeq(calls, LAMBDA c : c.op = op)

\* C28: when strategy.on_data raises at a bar, run hands the error to its
\* caller: the bar is not marked (the marks made are those of the bars
\* before it), on_stop is not called, no file is written, and the run
\* takes no further step.
C28_OnDataErrorPropagates ==
    [][ /\ (pc = "on_data" /\ pc' = "raised") =>
             /\ error' = "StrategyError"
             /\ broker' = broker
             /\ calls' = calls
             /\ calls[Len(calls)] = Call("on_data", price_df[idx])
             /\ Len(CallsOf("mark_to_market")) = idx - 1
             /\ CallsOf("on_stop") = <<>>
             /\ DOMAIN written' = {}
        /\ (pc = "raised" /\ error = "StrategyError") =>
             (broker' = broker /\ pc' \in {"on_start", "raised"})
      ]_vars

C28_Witness ==
    /\ pc = "raised"
    /\ error = "StrategyError"
    /\ Len(price_df) = 2
    /\ idx = 2
    /\ calls[Len(calls)] = Call("on_data", price_df[2])
    /\ Len(CallsOf("mark_to_market")) = 1
    /\ DOMAIN written = {}

\* C29: a place_order call made without a reference bar (no data keyword)
\* fails, and the failed call leaves cash, positions, the ledger's trade
\* log and the run's trades list as they were.
C29_OrderWithoutBarFails ==
    [][ (Ordered' /\ last_call' # last_call /\ last_call'.bar = NoBar) =>
          /\ last_call'.raised
          /\ broker'.cash = broker.cash
          /\ broker'.positions = broker.positions
          /\ broker'.trades = broker.trades
          /\ output'.trades = output.trades ]_vars

C29_Witness ==
    /\ Ordered
    /\ last_call.bar = NoBar
    /\ last_call.raised
    /\ broker = last_call.pre
    /\ broker.trades # <<>>
    /\ output.trades # <<>>
    /\ broker.positions # EmptyDict

\* The largest of the first t values of a series of integers.
RunningPeak(values, t) ==
    CHOOSE m \in {values[s] : s \in 1..t} : \A s \in 1..t : values[s] <= m

\* C30: max_drawdown is never positive and is the worst decline of NAV from
\* its running peak over the whole series, the minimum over t of
\* NAV[t] / max(NAV[0..t]) - 1 with the first point counted as a peak.
\* Stated for series of positive NAV values.
C30_MaxDrawdownFromPeak ==
    ( /\ PerfComputed
      /\ ~last_call.nav_series.none
      /\ last_call.nav_series.values # <<>>
      /\ \A t \in 1..Len(last_call.nav_series.values) : last_call.nav_series.values[t] > 0 )
    => LET values == last_call.nav_series.values
           declines == {ExtSubOne(ExtDiv(Frac(values[t], 1), Frac(RunningPeak(values, t), 1))) :
                           t \in 1..Len(values)}
       IN  /\ SignOf(last_call.result.max_drawdown) <= 0
           /\ last_call.result.max_drawdown = ExtMin(declines)

====
